---- MODULE Spec2Model ----
(***************************************************************************)
(* VortexL2 port forwarding: the ForwardManager (fleet of ForwardServer    *)
(* objects keyed by port), the start()/stop() coroutines of each server,   *)
(* the per-connection handler with its two copy loops, and the Config      *)
(* object that holds the desired-port list and the remote target.          *)
(*                                                                         *)
(* The asyncio event loop is single threaded: a coroutine runs from one    *)
(* await to the next without interleaving, so each action below is the     *)
(* code between two suspension points.                                     *)
(***************************************************************************)
EXTENDS Integers, Sequences, FiniteSets, TLC

\* ---------------------------------------------------------------- bounds
NumPorts == 2
MaxObjs == 2
MaxTasks == 2
MaxSessions == 1
MaxChunks == 1
MaxErrors == 1
MaxFields == 2
MaxClients == 2

Ports == 1..NumPorts

\* config.remote_forward_ip: a falsy value (None or "") or an address
NoIP == ""
RemoteIPs == {NoIP, "10.30.30.2"}

VARIABLES
    remote_forward_ip,  \* Config._config["remote_forward_ip"]
    forwarded_ports,    \* Config._config["forwarded_ports"], a list
    servers,            \* ForwardManager.servers: port -> ForwardServer object
    objs,               \* the ForwardServer objects alive, by identity
    tasks,              \* the unfinished start() tasks of each object
    gather,             \* the stop_all_forwards call in flight
    sessions,           \* the handle_client tasks ever spawned
    quiesced,           \* stop_all_forwards returned, no start since
    ret                 \* what the manager call of the last step returned

vars == <<remote_forward_ip, forwarded_ports, servers, objs, tasks, gather,
          sessions, quiesced, ret>>

\* ------------------------------------------------------------- helpers
Range(s) == {s[i] : i \in DOMAIN s}

NoDup(s) == \A i, j \in DOMAIN s : i # j => s[i] # s[j]

RECURSIVE RemoveFirst(_, _)
\* list.remove(x): drops the first occurrence of x
RemoveFirst(s, x) ==
    IF s = <<>> THEN <<>>
    ELSE IF Head(s) = x THEN Tail(s)
    ELSE <<Head(s)>> \o RemoveFirst(Tail(s), x)

\* every duplicate-free list over a set (what the config file may hold)
DupFreeSeqs(S) ==
    UNION {{s \in [1..n -> S] : NoDup(s)} : n \in 0..Cardinality(S)}

\* ------------------------------------------------------ ForwardServer
ZeroStats ==
    [connections |-> 0, total_bytes_sent |-> 0,
     total_bytes_received |-> 0, errors |-> 0]

\* ForwardServer.__init__; self.server is "none" (None), "open" (an
\* asyncio server whose listening socket is open) or "closed"
NewServer(port, remote_ip) ==
    [port |-> port, remote_ip |-> remote_ip, remote_port |-> port,
     server |-> "none", running |-> FALSE, active_sessions |-> <<>>,
     stats |-> ZeroStats]

\* the start() tasks of one server object, by where they stand: created
\* (not run yet), bound (start_server has bound and listens, has not
\* returned yet), cancelled (serve_forever was cancelled, the task has
\* not finished yet); a task in serve_forever holds the object's open
\* self.server
NoTasks == [created |-> 0, bound |-> 0, cancelled |-> 0]

\* the start() tasks of object o that are in serve_forever
Serving(o) == IF objs[o].server = "open" THEN 1 ELSE 0

\* the start() tasks of object o that have not finished
LiveTasks(o) ==
    tasks[o].created + tasks[o].bound + Serving(o) + tasks[o].cancelled

\* the object has an open listening socket
Listening(o) == tasks[o].bound > 0 \/ objs[o].server = "open"

\* the ports this process listens on (what the operating system sees)
ListeningPorts == {objs[o].port : o \in {x \in DOMAIN objs : Listening(x)}}

\* ForwardServer.get_status
get_status(o) ==
    [port |-> objs[o].port,
     remote |-> <<objs[o].remote_ip, objs[o].remote_port>>,
     running |-> objs[o].running,
     active_sessions |-> Len(objs[o].active_sessions),
     has_stats |-> TRUE,
     stats |-> objs[o].stats]

\* ------------------------------------------------------------- Config
\* an add_port that appends without looking
append_port(ports, port) == Append(ports, port)

\* Config.add_port: the list after the call
add_port(ports, port) ==
    IF port \notin Range(ports) THEN Append(ports, port) ELSE ports

\* Config.remove_port: the list after the call
remove_port(ports, port) ==
    IF port \in Range(ports) THEN RemoveFirst(ports, port) ELSE ports

\* ------------------------------------------------------------- heap
\* a function with no argument: the empty dict
Empty == [x \in {} |-> 0]

ObjIds == 1..MaxObjs

\* the identity of the next object constructed (the lowest unused one)
NewId(os) ==
    CHOOSE i \in ObjIds \ DOMAIN os : \A j \in ObjIds \ DOMAIN os : i <= j

\* an object is alive while something refers to it: the fleet map, one of
\* its start() or stop() coroutines, its listening server (the event loop
\* holds it) or a handle_client task; any other object is garbage, which
\* Python frees
Alive(o, st) ==
    \/ \E p \in DOMAIN st.servers : st.servers[p] = o
    \/ st.tasks[o] # NoTasks
    \/ st.objs[o].server = "open"
    \/ o \in st.gather.todo \cup st.gather.wait
    \/ \E s \in DOMAIN sessions : sessions[s].obj = o

\* the manager's state
State == [servers |-> servers, objs |-> objs, tasks |-> tasks, gather |-> gather]

\* st without its garbage
Collect(st) ==
    LET keep == {o \in DOMAIN st.objs : Alive(o, st)}
    IN [st EXCEPT !.objs = [o \in keep |-> st.objs[o]],
                  !.tasks = [o \in keep |-> st.tasks[o]]]

\* the next state is st without its garbage
Commit(st) ==
    LET st1 == Collect(st)
    IN /\ servers' = st1.servers
       /\ objs' = st1.objs
       /\ tasks' = st1.tasks
       /\ gather' = st1.gather

\* ------------------------------------------------------------ results
Line(p, text) == [port |-> p, text |-> text]

Ret(op, port, outcome, msg) ==
    [op |-> op, port |-> port, outcome |-> outcome, msg |-> msg,
     probe |-> {}, list |-> <<>>, input |-> <<>>]

\* no manager call returned in the last step
NoRet == Ret("none", 0, "ok", <<>>)

\* the call that stops servers: caller says which call it is
\* ("stop_all", "restart" while it stops, "restart_sleep" while it sleeps),
\* "none" when there is none, "restarted" once restart_all_forwards has
\* returned; results are the ports it selected
NoGather ==
    [active |-> FALSE, todo |-> {}, wait |-> {}, results |-> {},
     dirty |-> FALSE, caller |-> "none"]

Init ==
    /\ remote_forward_ip \in RemoteIPs
    /\ forwarded_ports \in DupFreeSeqs(Ports)
    /\ servers = Empty
    /\ objs = Empty
    /\ tasks = Empty
    /\ gather = NoGather
    /\ sessions = <<>>
    /\ quiesced = FALSE
    /\ ret = NoRet

\* ------------------------------------------------ Config (desired state)
\* Config.remote_forward_ip setter: the value is stored, then _save may
\* raise (the file or its directory is not writable)
set_remote_forward_ip(value, save_fails) ==
    /\ remote_forward_ip' = value
    /\ ret' = Ret("set_remote", 0, IF save_fails THEN "raised" ELSE "ok", <<>>)
    /\ UNCHANGED <<forwarded_ports, servers, objs, tasks, gather, sessions,
                   quiesced>>

\* ----------------------------------------------------- ForwardManager
\* a manager that does not look at the remote target
remote_ip_unchecked == FALSE

\* create_forward, start_all_forwards: "if not remote_ip"
not_configured == remote_forward_ip = NoIP

\* a manager that does not look for the port in the fleet map
conflict_unchecked(port) == FALSE

\* create_forward: "if port in self.servers"
already_forwarding(port) == port \in DOMAIN servers

\* "self.servers[port] = ForwardServer(port, remote_ip, remote_port=port)":
\* the assignment replaces what the map held for the port
construct(port, remote_ip, st) ==
    LET st0 == Collect([st EXCEPT
                   !.servers = [p \in DOMAIN @ \ {port} |-> @[p]]])
        o == NewId(st0.objs)
    IN [st0 EXCEPT !.servers = (port :> o) @@ @,
                   !.objs = (o :> NewServer(port, remote_ip)) @@ @,
                   !.tasks = (o :> NoTasks) @@ @]

\* the model has an identity left for the object construct makes
CanConstruct(port, st) ==
    DOMAIN Collect([st EXCEPT
               !.servers = [p \in DOMAIN @ \ {port} |-> @[p]]]).objs # ObjIds

\* ForwardManager.create_forward
create_forward(port, save_fails) ==
    IF not_configured
    THEN /\ ret' = Ret("create", port, "fail",
                       <<Line(port, "Remote forward IP not configured")>>)
         /\ UNCHANGED <<remote_forward_ip, forwarded_ports, servers, objs,
                        tasks, gather, sessions, quiesced>>
    ELSE IF already_forwarding(port)
    THEN /\ ret' = Ret("create", port, "fail",
                       <<Line(port, "already forwarding")>>)
         /\ UNCHANGED <<remote_forward_ip, forwarded_ports, servers, objs,
                        tasks, gather, sessions, quiesced>>
    ELSE /\ CanConstruct(port, State)
         /\ Commit(construct(port, remote_forward_ip, State))
         /\ forwarded_ports' = add_port(forwarded_ports, port)
         \* add_port saves only when it appended
         /\ ret' = IF port \notin Range(forwarded_ports) /\ save_fails
                   THEN Ret("create", port, "raised", <<>>)
                   ELSE Ret("create", port, "ok", <<Line(port, "created")>>)
         /\ UNCHANGED <<remote_forward_ip, sessions, quiesced>>

\* remove_forward: "if port in self.servers: del self.servers[port]"
discard_server(port, st) ==
    [st EXCEPT !.servers = [p \in DOMAIN @ \ {port} |-> @[p]]]

\* ForwardManager.remove_forward
remove_forward(port, save_fails) ==
    /\ Commit(discard_server(port, State))
    /\ forwarded_ports' = remove_port(forwarded_ports, port)
    \* remove_port saves only when it removed
    /\ ret' = IF port \in Range(forwarded_ports) /\ save_fails
              THEN Ret("remove", port, "raised", <<>>)
              ELSE Ret("remove", port, "ok", <<Line(port, "removed")>>)
    /\ UNCHANGED <<remote_forward_ip, sessions, quiesced>>

\* ------------------------- add_multiple_forwards, remove_multiple_forwards
\* the decimal digits that name the ports of the model
Digits == <<"1", "2", "3", "4", "5", "6", "7", "8", "9">>

\* the fields between the commas of ports_str, each a list of characters:
\* nothing, blanks, a word, a port, a port after a blank
BatchFields ==
    {<<>>, <<" ">>, <<"a">>}
    \cup {<<Digits[p]>> : p \in Ports}
    \cup {<<" ", Digits[1]>>}

\* ports_str.split(","): the inputs of the model
BatchInputs == UNION {[1..n -> BatchFields] : n \in 0..MaxFields}

RECURSIVE lstrip(_)
lstrip(f) == IF f # <<>> /\ Head(f) = " " THEN lstrip(Tail(f)) ELSE f

RECURSIVE rstrip(_)
rstrip(f) ==
    IF f # <<>> /\ f[Len(f)] = " " THEN rstrip(SubSeq(f, 1, Len(f) - 1)) ELSE f

\* str.strip()
strip(f) == lstrip(rstrip(f))

RECURSIVE split_tokens(_)
\* "[p.strip() for p in ports_str.split(",") if p.strip()]"
split_tokens(fields) ==
    IF fields = <<>> THEN <<>>
    ELSE (IF strip(Head(fields)) # <<>> THEN <<strip(Head(fields))>> ELSE <<>>)
         \o split_tokens(Tail(fields))

\* the value of a digit character, 0 for any other character
digit_value(c) ==
    IF \E i \in DOMAIN Digits : Digits[i] = c
    THEN CHOOSE i \in DOMAIN Digits : Digits[i] = c
    ELSE 0

\* int(port_str) raises ValueError
is_invalid(tok) == \E i \in DOMAIN tok : digit_value(tok[i]) = 0

RECURSIVE to_int(_)
\* int(port_str) of a token of digits
to_int(tok) ==
    IF tok = <<>> THEN 0
    ELSE 10 * to_int(SubSeq(tok, 1, Len(tok) - 1)) + digit_value(tok[Len(tok)])

\* the line of the report for a token int() rejects
InvalidLine == Line(0, "Invalid port number")

\* create_forward called by the batch, on the state st of the batch so far;
\* raised is set when Config._save raises
create_in_batch(port, save_fails, st) ==
    IF st.remote_ip = NoIP
    THEN [st EXCEPT !.results =
              Append(@, Line(port, "Remote forward IP not configured"))]
    ELSE IF port \in DOMAIN st.servers
    THEN [st EXCEPT !.results = Append(@, Line(port, "already forwarding"))]
    ELSE IF ~CanConstruct(port, st) THEN [st EXCEPT !.full = TRUE]
    ELSE LET st1 == [construct(port, st.remote_ip, st) EXCEPT
                        !.ports = add_port(@, port)]
         IN IF port \notin Range(st.ports) /\ save_fails
            THEN [st1 EXCEPT !.raised = TRUE]
            ELSE [st1 EXCEPT !.results = Append(@, Line(port, "created"))]

\* remove_forward called by the batch
remove_in_batch(port, save_fails, st) ==
    LET st1 == [Collect(discard_server(port, st)) EXCEPT
                   !.ports = remove_port(@, port)]
    IN IF port \in Range(st.ports) /\ save_fails
       THEN [st1 EXCEPT !.raised = TRUE]
       ELSE [st1 EXCEPT !.results = Append(@, Line(port, "removed"))]

RECURSIVE batch_loop(_, _, _, _)
\* "for port_str in ports": int(), the single-port call, one result line;
\* ValueError gives the line of an invalid token, any other exception ends
\* the loop and the call
batch_loop(op, toks, save_fails, st) ==
    IF toks = <<>> \/ st.raised \/ st.full THEN st
    ELSE IF is_invalid(Head(toks))
    THEN batch_loop(op, Tail(toks), save_fails,
                    [st EXCEPT !.results = Append(@, InvalidLine)])
    ELSE batch_loop(op, Tail(toks), save_fails,
                    IF op = "add_multiple"
                    THEN create_in_batch(to_int(Head(toks)), save_fails, st)
                    ELSE remove_in_batch(to_int(Head(toks)), save_fails, st))

\* add_multiple_forwards and remove_multiple_forwards (op says which): the
\* whole call, which never awaits
batch_forwards(op, input, save_fails) ==
    LET st0 == [servers |-> servers, objs |-> objs, tasks |-> tasks,
                gather |-> gather, ports |-> forwarded_ports,
                remote_ip |-> remote_forward_ip,
                results |-> <<>>, raised |-> FALSE, full |-> FALSE]
        st == batch_loop(op, split_tokens(input), save_fails, st0)
    IN /\ ~st.full
       /\ Commit(st)
       /\ forwarded_ports' = st.ports
       /\ ret' = [Ret(op, 0, IF st.raised THEN "raised" ELSE "ok",
                      IF st.raised THEN <<>>
                      ELSE IF st.results = <<>>
                      THEN <<Line(0, "No ports provided")>>
                      ELSE st.results)
                  EXCEPT !.input = input]
       /\ UNCHANGED <<remote_forward_ip, sessions, quiesced>>

add_multiple_forwards(input, save_fails) ==
    batch_forwards("add_multiple", input, save_fails)

remove_multiple_forwards(input, save_fails) ==
    batch_forwards("remove_multiple", input, save_fails)

\* a loop that skips every server that was started before
ever_started(server) ==
    server.running \/ server.server # "none" \/ server.stats.errors > 0

\* start_all_forwards: "if server.running: ... continue"
already_running(server) == server.running

\* start_all_forwards: the body of the loop for one port, on the manager's
\* state st and the results so far
start_one(port, remote_ip, st) ==
    LET st1 == IF port \notin DOMAIN st.servers
               THEN construct(port, remote_ip, st) ELSE st
        o == st1.servers[port]
    IN IF already_running(st1.objs[o])
       THEN [st1 EXCEPT !.results = Append(@, Line(port, "already running"))]
       ELSE \* asyncio.create_task(server.start())
            [st1 EXCEPT !.tasks[o].created = @ + 1,
                        !.results = Append(@, Line(port, "starting..."))]

\* the model has an identity left for the object the loop may construct
CanStart(port, st) == port \in DOMAIN st.servers \/ CanConstruct(port, st)

RECURSIVE start_loop(_, _, _)
\* start_all_forwards: "for port in self.config.forwarded_ports"; the
\* field full is set when the loop leaves the model's bounds
start_loop(ports, remote_ip, st) ==
    IF ports = <<>> THEN st
    ELSE IF ~CanStart(Head(ports), st) THEN [st EXCEPT !.full = TRUE]
    ELSE start_loop(Tail(ports), remote_ip,
                    start_one(Head(ports), remote_ip, st))

RECURSIVE SumOver(_, _)
SumOver(f, S) ==
    IF S = {} THEN 0
    ELSE LET x == CHOOSE y \in S : TRUE IN f[x] + SumOver(f, S \ {x})

\* the unfinished start() tasks of a manager state
SumLive(st) ==
    SumOver([o \in DOMAIN st.objs |->
                st.tasks[o].created + st.tasks[o].bound + st.tasks[o].cancelled
                + (IF st.objs[o].server = "open" THEN 1 ELSE 0)],
            DOMAIN st.objs)

ports_unchecked == FALSE

\* start_all_forwards: "if not ports"
nothing_to_start == forwarded_ports = <<>>

\* the body of start_all_forwards, returning as call op; g_same is the
\* stopping call in flight after a body that started nothing, g_started
\* the one after a body that ran its loop
start_all_body(op, g_same, g_started) ==
    IF nothing_to_start
    THEN /\ ret' = Ret(op, 0, "ok",
                       <<Line(0, "No port forwards configured")>>)
         /\ gather' = g_same
         /\ UNCHANGED <<remote_forward_ip, forwarded_ports, servers, objs,
                        tasks, sessions, quiesced>>
    ELSE IF not_configured
    THEN /\ ret' = Ret(op, 0, "fail",
                       <<Line(0, "Remote forward IP not configured")>>)
         /\ gather' = g_same
         /\ UNCHANGED <<remote_forward_ip, forwarded_ports, servers, objs,
                        tasks, sessions, quiesced>>
    ELSE LET st0 == [servers |-> servers, objs |-> objs, tasks |-> tasks,
                     gather |-> g_started,
                     results |-> <<>>, full |-> FALSE]
             st == start_loop(forwarded_ports, remote_forward_ip, st0)
         IN /\ ~st.full
            /\ SumLive(st) <= MaxTasks
            /\ Commit(st)
            /\ ret' = Ret(op, 0, "ok", st.results)
            /\ quiesced' = FALSE
            /\ UNCHANGED <<remote_forward_ip, forwarded_ports, sessions>>

\* ForwardManager.start_all_forwards (it never awaits: one step)
start_all_forwards ==
    start_all_body("start_all", gather,
                   IF gather.active THEN [gather EXCEPT !.dirty = TRUE]
                   ELSE NoGather)

stop_close_dropping_sessions(o, st) ==
    [st EXCEPT !.objs[o].running = FALSE,
               !.objs[o].active_sessions = <<>>,
               !.objs[o].server = IF @ = "none" THEN "none" ELSE "closed",
               !.tasks[o].cancelled =
                   IF st.objs[o].server = "open" THEN @ + 1 ELSE @]

stop_close_zeroing_stats(o, st) ==
    [st EXCEPT !.objs[o].running = FALSE,
               !.objs[o].stats = ZeroStats,
               !.objs[o].server = IF @ = "none" THEN "none" ELSE "closed",
               !.tasks[o].cancelled =
                   IF st.objs[o].server = "open" THEN @ + 1 ELSE @]

\* ForwardServer.stop up to its await: the flag, then server.close(), which
\* closes the listening socket at once and cancels serve_forever
stop_close(o, st) ==
    [st EXCEPT !.objs[o].running = FALSE,
               !.objs[o].server = IF @ = "none" THEN "none" ELSE "closed",
               !.tasks[o].cancelled =
                   IF st.objs[o].server = "open" THEN @ + 1 ELSE @]

\* stop_all_forwards: "if server.running" selects the servers to stop
stop_selected ==
    {servers[p] : p \in {q \in DOMAIN servers : objs[servers[q]].running}}

\* ForwardManager.stop_all_forwards up to its await of gather: the stop()
\* coroutines are created, none has run yet
stop_all_forwards ==
    /\ ~gather.active
    /\ IF stop_selected = {}
       THEN /\ ret' = Ret("stop_all", 0, "ok",
                          <<Line(0, "No port forwards running")>>)
            /\ quiesced' = TRUE
            /\ UNCHANGED gather
       ELSE /\ gather' = [active |-> TRUE, todo |-> stop_selected, wait |-> {},
                          results |-> {objs[o].port : o \in stop_selected},
                          dirty |-> FALSE, caller |-> "stop_all"]
            /\ ret' = NoRet
            /\ UNCHANGED quiesced
    /\ UNCHANGED <<remote_forward_ip, forwarded_ports, servers, objs, tasks,
                   sessions>>

\* one stop() coroutine of the gather runs to "await server.wait_closed()"
\* (or to its end, when self.server is None)
stop(o) ==
    /\ gather.active
    /\ o \in gather.todo
    /\ LET st == stop_close(o, State)
       IN Commit([st EXCEPT !.gather.todo = @ \ {o},
                            !.gather.wait = IF objs[o].server # "none"
                                            THEN @ \cup {o} ELSE @])
    /\ ret' = NoRet
    /\ UNCHANGED <<remote_forward_ip, forwarded_ports, sessions, quiesced>>

\* wait_closed() of one stop() coroutine returns
stop_wait_closed(o) ==
    /\ gather.active
    /\ o \in gather.wait
    /\ Commit([State EXCEPT !.gather.wait = @ \ {o}])
    /\ ret' = NoRet
    /\ UNCHANGED <<remote_forward_ip, forwarded_ports, sessions, quiesced>>

\* every stop() of the gather is done: stop_all_forwards returns
stop_all_return ==
    /\ gather.active
    /\ gather.caller = "stop_all"
    /\ gather.todo = {}
    /\ gather.wait = {}
    /\ ret' = [Ret("stop_all", 0, "ok", <<>>) EXCEPT !.probe = gather.results]
    /\ quiesced' = ~gather.dirty
    /\ gather' = NoGather
    /\ UNCHANGED <<remote_forward_ip, forwarded_ports, servers, objs, tasks,
                   sessions>>

\* "await server.stop()" called on one server object, up to "await
\* self.server.wait_closed()" (or to its end, when self.server is None);
\* caller "stop" marks the call, results holds the port of the object
call_stop(o) ==
    /\ ~gather.active
    /\ LET st == stop_close(o, State)
       IN Commit([st EXCEPT !.gather =
              [active |-> TRUE, todo |-> {},
               wait |-> IF objs[o].server # "none" THEN {o} ELSE {},
               results |-> {objs[o].port}, dirty |-> FALSE,
               caller |-> "stop"]])
    /\ ret' = NoRet
    /\ UNCHANGED <<remote_forward_ip, forwarded_ports, sessions, quiesced>>

\* stop() returns; from then on caller "stopped" says that stop() returned
\* for the port in results and start_all_forwards has not started anything
\* since stop() was called
stop_return ==
    /\ gather.caller = "stop"
    /\ gather.wait = {}
    /\ ret' = Ret("stop", CHOOSE p \in gather.results : TRUE, "ok", <<>>)
    /\ gather' = IF gather.dirty THEN NoGather
                 ELSE [NoGather EXCEPT !.results = gather.results,
                                       !.caller = "stopped"]
    /\ UNCHANGED <<remote_forward_ip, forwarded_ports, servers, objs, tasks,
                   sessions, quiesced>>

\* ForwardManager.restart_all_forwards up to the first await that suspends
\* it: the gather of stop_all_forwards, or the sleep when stop_all_forwards
\* found no server running and returned at once
restart_all_forwards ==
    /\ ~gather.active
    /\ gather' = [active |-> TRUE, todo |-> stop_selected, wait |-> {},
                  results |-> {objs[o].port : o \in stop_selected},
                  dirty |-> FALSE,
                  caller |-> IF stop_selected = {} THEN "restart_sleep"
                             ELSE "restart"]
    /\ quiesced' = IF stop_selected = {} THEN TRUE ELSE quiesced
    /\ ret' = NoRet
    /\ UNCHANGED <<remote_forward_ip, forwarded_ports, servers, objs, tasks,
                   sessions>>

\* restart_all_forwards: stop_all_forwards returned, "await asyncio.sleep(1)"
restart_stopped ==
    /\ gather.caller = "restart"
    /\ gather.todo = {}
    /\ gather.wait = {}
    /\ gather' = [gather EXCEPT !.caller = "restart_sleep"]
    /\ quiesced' = ~gather.dirty
    /\ ret' = NoRet
    /\ UNCHANGED <<remote_forward_ip, forwarded_ports, servers, objs, tasks,
                   sessions>>

\* restart_all_forwards: the sleep is over, "return await
\* self.start_all_forwards()"
restart_start ==
    /\ gather.caller = "restart_sleep"
    /\ LET g == [NoGather EXCEPT !.results = gather.results,
                                 !.caller = "restarted"]
       IN start_all_body("restart_all", g, g)

\* ------------------------------------------------ ForwardServer.start
\* the operating system refuses a second listening socket on a port
port_in_use(port) == port \in ListeningPorts

\* a start() whose failure marks every server of the process as failed
bind_failed_fleet(o, st) ==
    [st EXCEPT !.tasks[o].created = @ - 1,
               !.objs = [q \in DOMAIN @ |->
                            IF q = o
                            THEN [@[q] EXCEPT !.running = FALSE,
                                              !.stats.errors = @ + 1]
                            ELSE [@[q] EXCEPT !.running = FALSE]]]

\* start(): "except OSError: self.running = False; self.stats["errors"] +=
\* 1; return False": the task is over
bind_failed(o, st) ==
    [st EXCEPT !.tasks[o].created = @ - 1,
               !.objs[o].running = FALSE,
               !.objs[o].stats.errors = @ + 1]

\* start(): asyncio.start_server binds and listens; it fails when the port
\* is taken or the system refuses the bind (refused)
start_bind(o, refused) ==
    /\ tasks[o].created > 0
    /\ IF ~refused /\ ~port_in_use(objs[o].port)
       THEN Commit([State EXCEPT !.tasks[o].created = @ - 1,
                                 !.tasks[o].bound = @ + 1])
       ELSE /\ objs[o].stats.errors < MaxErrors
            /\ Commit(bind_failed(o, State))
    /\ ret' = NoRet
    /\ UNCHANGED <<remote_forward_ip, forwarded_ports, sessions, quiesced>>

\* start(): start_server returned; the server is stored, the flag set and
\* serve_forever awaited
start_serve(o) ==
    /\ tasks[o].bound > 0
    /\ Commit([State EXCEPT !.tasks[o].bound = @ - 1,
                            !.objs[o].server = "open",
                            !.objs[o].running = TRUE])
    /\ ret' = NoRet
    /\ UNCHANGED <<remote_forward_ip, forwarded_ports, sessions, quiesced>>

\* start(): serve_forever was cancelled by close(); "except CancelledError:
\* return True"
start_cancelled(o) ==
    /\ tasks[o].cancelled > 0
    /\ Commit([State EXCEPT !.tasks[o].cancelled = @ - 1])
    /\ ret' = NoRet
    /\ UNCHANGED <<remote_forward_ip, forwarded_ports, sessions, quiesced>>


\* ------------------------------------- ForwardServer.handle_client, _pipe
\* the two copy loops of a session
Dirs == {"c2r", "r2c"}

\* _pipe reads from one connection and writes to the other: "c2r" is
\* _pipe(local_reader, remote_writer), "r2c" is _pipe(remote_reader,
\* local_writer)
Src(d) == IF d = "c2r" THEN "local" ELSE "remote"
Dst(d) == IF d = "c2r" THEN "remote" ELSE "local"

\* ForwardSession(...) and the locals of handle_client once it awaits
\* open_connection. A connection is "open", "closed" (this side closed its
\* transport) or "lost" (reset by the peer); the remote one is "none" until
\* it is made. target is where open_connection was told to connect,
\* created_at is the clock reading datetime.now() gave the constructor;
\* attempts how many times it was called; written counts, per direction,
\* the chunks whose write and drain returned; failed records what went
\* wrong in the session.
SessionToListenPort(o, at) ==
    [obj |-> o, created_at |-> at, pc |-> "connecting",
     target |-> <<"127.0.0.1", objs[o].port>>, attempts |-> 1,
     pipe |-> [c2r |-> "none", r2c |-> "none"],
     conn |-> [local |-> "open", remote |-> "none"],
     bytes_sent |-> 0, bytes_received |-> 0,
     written |-> [c2r |-> 0, r2c |-> 0], failed |-> "no"]

\* a session whose counters start at the totals of its server
SessionFromTotals(o, at) ==
    [obj |-> o, created_at |-> at, pc |-> "connecting",
     target |-> <<objs[o].remote_ip, objs[o].remote_port>>, attempts |-> 1,
     pipe |-> [c2r |-> "none", r2c |-> "none"],
     conn |-> [local |-> "open", remote |-> "none"],
     bytes_sent |-> objs[o].stats.total_bytes_sent,
     bytes_received |-> objs[o].stats.total_bytes_received,
     written |-> [c2r |-> 0, r2c |-> 0], failed |-> "no"]

NewSession(o, at) ==
    [obj |-> o, created_at |-> at, pc |-> "connecting",
     target |-> <<objs[o].remote_ip, objs[o].remote_port>>, attempts |-> 1,
     pipe |-> [c2r |-> "none", r2c |-> "none"],
     conn |-> [local |-> "open", remote |-> "none"],
     bytes_sent |-> 0, bytes_received |-> 0,
     written |-> [c2r |-> 0, r2c |-> 0], failed |-> "no"]

\* what datetime.now() can return to the constructor of the next session:
\* the reading the previous session got (the clock has not advanced by a
\* microsecond, or was set back) or a later one
Now ==
    IF sessions = <<>> THEN {1}
    ELSE {sessions[Len(sessions)].created_at,
          sessions[Len(sessions)].created_at + 1}

\* handle_client from its start to "await asyncio.wait_for(open_connection)":
\* the event loop accepted a client on the server's listening socket. The
\* start() task resumes from start_server before the event loop runs the
\* handler of the first client, so the server is stored by then.
accept(o, limit) ==
    /\ objs[o].server = "open"
    /\ Len(sessions) < limit
    /\ \E at \in Now : sessions' = Append(sessions, NewSession(o, at))
    /\ objs' = [objs EXCEPT ![o].active_sessions = Append(@, Len(sessions) + 1),
                            ![o].stats.connections = @ + 1]
    /\ ret' = NoRet
    /\ UNCHANGED <<remote_forward_ip, forwarded_ports, servers, tasks, gather,
                   quiesced>>

\* handle_client for one of at most MaxSessions clients
handle_client(o) == accept(o, MaxSessions)

\* handle_client: open_connection returned; the two _pipe tasks are created
\* and gathered
connect_ok(s) ==
    /\ sessions[s].pc = "connecting"
    /\ sessions' = [sessions EXCEPT ![s].pc = "relaying",
                                    ![s].conn.remote = "open",
                                    ![s].pipe = [c2r |-> "read", r2c |-> "read"]]
    /\ ret' = NoRet
    /\ UNCHANGED <<remote_forward_ip, forwarded_ports, servers, objs, tasks,
                   gather, quiesced>>

\* handle_client: what "except asyncio.TimeoutError" and "except Exception"
\* around open_connection do to the stats
count_connect_error(stats) == [stats EXCEPT !.errors = @ + 1]

\* handle_client: open_connection failed or timed out; return, and the
\* finally clause closes local_writer and awaits wait_closed
connect_failed(s) ==
    /\ sessions[s].pc = "connecting"
    /\ objs[sessions[s].obj].stats.errors < MaxErrors
    /\ objs' = [objs EXCEPT ![sessions[s].obj].stats = count_connect_error(@)]
    /\ sessions' = [sessions EXCEPT ![s].pc = "closing",
                                    ![s].conn.local = "closed",
                                    ![s].failed = "connect"]
    /\ ret' = NoRet
    /\ UNCHANGED <<remote_forward_ip, forwarded_ports, servers, tasks, gather,
                   quiesced>>

chunk_uncounted(d, rec) == rec

\* _pipe: the counters after a chunk was read
count_chunk(d, rec) ==
    IF d = "c2r" THEN [rec EXCEPT !.sent = @ + 1]
    ELSE [rec EXCEPT !.received = @ + 1]

\* the chunks a session has read in direction d
Chunks(s, d) ==
    IF d = "c2r" THEN sessions[s].bytes_sent ELSE sessions[s].bytes_received

\* _pipe: reader.read returned data; the counters are updated, the data
\* written, and drain awaited
pipe_data(s, d) ==
    /\ sessions[s].pipe[d] = "read"
    /\ sessions[s].conn[Src(d)] = "open"
    /\ Chunks(s, d) < MaxChunks
    /\ LET o == sessions[s].obj
           c == count_chunk(d, [sent |-> sessions[s].bytes_sent,
                                received |-> sessions[s].bytes_received])
           t == count_chunk(d, [sent |-> objs[o].stats.total_bytes_sent,
                                received |-> objs[o].stats.total_bytes_received])
       IN /\ sessions' = [sessions EXCEPT ![s].pipe[d] = "drain",
                                          ![s].bytes_sent = c.sent,
                                          ![s].bytes_received = c.received]
          /\ objs' = [objs EXCEPT ![o].stats.total_bytes_sent = t.sent,
                                  ![o].stats.total_bytes_received = t.received]
    /\ ret' = NoRet
    /\ UNCHANGED <<remote_forward_ip, forwarded_ports, servers, tasks, gather,
                   quiesced>>

\* _pipe: "finally: writer.close()" closes the transport it writes to, both
\* directions of it
close_writer(d, conn) ==
    [conn EXCEPT ![Dst(d)] = IF @ = "open" THEN "closed" ELSE @]

\* _pipe: what "except Exception" does to the stats of the server
count_pipe_error(stats) == stats

\* _pipe leaves its loop (break, or an exception) and runs its finally
\* clause up to "await writer.wait_closed()"
pipe_exit(s, d, conn, error) ==
    /\ sessions' = [sessions EXCEPT ![s].pipe[d] = "closing",
                                    ![s].conn = close_writer(d, conn),
                                    ![s].failed = IF error THEN "relay" ELSE @]
    /\ objs' = [objs EXCEPT ![sessions[s].obj].stats =
                                IF error THEN count_pipe_error(@) ELSE @]
    /\ ret' = NoRet
    /\ UNCHANGED <<remote_forward_ip, forwarded_ports, servers, tasks, gather,
                   quiesced>>

\* _pipe: reader.read returned b"" because the peer closed its side
pipe_eof(s, d) ==
    /\ sessions[s].pipe[d] = "read"
    /\ sessions[s].conn[Src(d)] = "open"
    /\ pipe_exit(s, d, sessions[s].conn, FALSE)

\* the peer of one connection of a session resets it: the transport is
\* lost, its reader raises and writes to it fail
conn_reset(s, side) ==
    /\ sessions[s].pc = "relaying"
    /\ sessions[s].conn[side] = "open"
    /\ sessions' = [sessions EXCEPT ![s].conn[side] = "lost"]
    /\ ret' = NoRet
    /\ UNCHANGED <<remote_forward_ip, forwarded_ports, servers, objs, tasks,
                   gather, quiesced>>

\* _pipe: reader.read raised
pipe_read_error(s, d) ==
    /\ sessions[s].pipe[d] = "read"
    /\ sessions[s].conn[Src(d)] = "lost"
    /\ pipe_exit(s, d, sessions[s].conn, TRUE)

\* _pipe: reader.read returned b"" because the transport it reads from was
\* closed on this side (by the finally clause of the paired _pipe)
pipe_source_closed(s, d) ==
    /\ sessions[s].pipe[d] = "read"
    /\ sessions[s].conn[Src(d)] = "closed"
    /\ pipe_exit(s, d, sessions[s].conn, FALSE)

\* _pipe: "await writer.drain()" returns: the peer took the data, the write
\* buffer is below its limit again
pipe_drained(s, d) ==
    /\ sessions[s].pipe[d] = "drain"
    /\ sessions[s].conn[Dst(d)] = "open"
    /\ sessions' = [sessions EXCEPT ![s].pipe[d] = "read",
                                    ![s].written[d] = @ + 1]
    /\ ret' = NoRet
    /\ UNCHANGED <<remote_forward_ip, forwarded_ports, servers, objs, tasks,
                   gather, quiesced>>

\* _pipe: "await writer.drain()" raises: the connection written to is lost
pipe_drain_error(s, d) ==
    /\ sessions[s].pipe[d] = "drain"
    /\ sessions[s].conn[Dst(d)] = "lost"
    /\ pipe_exit(s, d, sessions[s].conn, TRUE)

\* _pipe: wait_closed returned; the task is done
pipe_done(s, d) ==
    /\ sessions[s].pipe[d] = "closing"
    /\ sessions' = [sessions EXCEPT ![s].pipe[d] = "done"]
    /\ ret' = NoRet
    /\ UNCHANGED <<remote_forward_ip, forwarded_ports, servers, objs, tasks,
                   gather, quiesced>>

\* handle_client: gather(t1, t2) returned; the finally clause closes
\* local_writer and awaits wait_closed
handler_finally(s) ==
    /\ sessions[s].pc = "relaying"
    /\ \A d \in Dirs : sessions[s].pipe[d] = "done"
    /\ sessions' = [sessions EXCEPT
           ![s].pc = "closing",
           ![s].conn.local = IF @ = "open" THEN "closed" ELSE @]
    /\ ret' = NoRet
    /\ UNCHANGED <<remote_forward_ip, forwarded_ports, servers, objs, tasks,
                   gather, quiesced>>

\* handle_client: "self.active_sessions.remove(session)"
\* ForwardSession.__eq__, generated by @dataclass: two sessions are equal
\* when port, remote_ip, remote_port, created_at, bytes_sent and
\* bytes_received are
session_eq(a, b) ==
    /\ objs[a.obj].port = objs[b.obj].port
    /\ a.target = b.target
    /\ a.created_at = b.created_at
    /\ a.bytes_sent = b.bytes_sent
    /\ a.bytes_received = b.bytes_received

RECURSIVE remove_equal(_, _)
\* list.remove(session): drops the first element equal to the session
remove_equal(active, x) ==
    IF active = <<>> THEN <<>>
    ELSE IF session_eq(sessions[Head(active)], x) THEN Tail(active)
    ELSE <<Head(active)>> \o remove_equal(Tail(active), x)

remove_session(s, active) == remove_equal(active, sessions[s])

\* handle_client: the rest of the finally clause: remote_writer, if there is
\* one, is closed, and the session leaves the active list
handler_done(s) ==
    /\ sessions[s].pc = "closing"
    /\ sessions' = [sessions EXCEPT
           ![s].pc = "done",
           ![s].conn.remote = IF @ = "open" THEN "closed" ELSE @]
    /\ objs' = [objs EXCEPT ![sessions[s].obj].active_sessions =
                                remove_session(s, @)]
    /\ ret' = NoRet
    /\ UNCHANGED <<remote_forward_ip, forwarded_ports, servers, tasks, gather,
                   quiesced>>

\* ------------------------------------------------------ list_forwards
\* _get_listening_ports: the ports the probe reports, or the empty set when
\* the probe fails (or finds nothing)
get_listening_ports(failed, others) ==
    IF failed THEN {} ELSE ListeningPorts \cup others

\* list_forwards: the "running" of an entry
is_running(port, listening_ports) == port \in listening_ports

running_written_back(listening_ports) ==
    [o \in DOMAIN objs |->
        [objs[o] EXCEPT !.running = is_running(objs[o].port, listening_ports)]]

\* the server objects after list_forwards: it assigns status["running"] in
\* the dict get_status returned, never a field of a server
after_list(listening_ports) == objs

\* list_forwards: one entry
list_entry(port, listening_ports) ==
    IF port \in DOMAIN servers
    THEN [get_status(servers[port]) EXCEPT
              !.running = is_running(port, listening_ports)]
    ELSE [port |-> port,
          remote |-> <<IF remote_forward_ip = NoIP THEN "-"
                       ELSE remote_forward_ip, port>>,
          running |-> is_running(port, listening_ports),
          active_sessions |-> 0,
          has_stats |-> FALSE,
          stats |-> ZeroStats]

\* ForwardManager.list_forwards
list_forwards(listening_ports) ==
    [i \in DOMAIN forwarded_ports |->
        list_entry(forwarded_ports[i], listening_ports)]

\* a call of list_forwards
ListForwards(failed, others) ==
    /\ LET lp == get_listening_ports(failed, others)
       IN ret' = [Ret("list", 0, "ok", <<>>) EXCEPT
                      !.probe = lp, !.list = list_forwards(lp)]
    /\ objs' = after_list(get_listening_ports(failed, others))
    /\ UNCHANGED <<remote_forward_ip, forwarded_ports, servers, tasks,
                   gather, sessions, quiesced>>

\* a call of get_status on one server object
Status(o) ==
    /\ ret' = [Ret("status", objs[o].port, "ok", <<>>) EXCEPT
                   !.list = <<get_status(o)>>]
    /\ UNCHANGED <<remote_forward_ip, forwarded_ports, servers, objs, tasks,
                   gather, sessions, quiesced>>

\* ------------------------------------------------------ specification
Next ==
    \/ \E p \in Ports, f \in BOOLEAN : create_forward(p, f)
    \/ \E p \in Ports, f \in BOOLEAN : remove_forward(p, f)
    \/ start_all_forwards
    \/ stop_all_forwards
    \/ \E o \in DOMAIN objs : stop(o)
    \/ \E o \in DOMAIN objs : stop_wait_closed(o)
    \/ stop_all_return
    \/ \E o \in DOMAIN objs, f \in BOOLEAN : start_bind(o, f)
    \/ \E o \in DOMAIN objs : start_serve(o)
    \/ \E o \in DOMAIN objs : start_cancelled(o)

Spec == Init /\ [][Next]_vars

\* the manager while the operator also edits the remote target
ConfigNext ==
    \/ \E v \in RemoteIPs : set_remote_forward_ip(v, FALSE)
    \/ \E p \in Ports, f \in BOOLEAN : create_forward(p, f)
    \/ start_all_forwards
    \/ \E o \in DOMAIN objs : start_bind(o, FALSE)
    \/ \E o \in DOMAIN objs : start_serve(o)

ConfigSpec == Init /\ [][ConfigNext]_vars

\* the manager while the operator also lists the forwards
ListNext ==
    \/ \E p \in Ports : create_forward(p, FALSE)
    \/ \E p \in Ports : remove_forward(p, FALSE)
    \/ start_all_forwards
    \/ \E o \in DOMAIN objs, f \in BOOLEAN : start_bind(o, f)
    \/ \E o \in DOMAIN objs : start_serve(o)
    \/ \E failed \in BOOLEAN, others \in SUBSET Ports : ListForwards(failed, others)

ListSpec == Init /\ [][ListNext]_vars

\* a fleet that is started once and serves clients while the operator
\* reads its state
ReadNext ==
    \/ start_all_forwards /\ tasks = Empty
    \/ \E o \in DOMAIN objs : start_bind(o, FALSE)
    \/ \E o \in DOMAIN objs : start_serve(o)
    \/ \E o \in DOMAIN objs : handle_client(o)
    \/ \E s \in DOMAIN sessions : connect_ok(s)
    \/ \E s \in DOMAIN sessions : connect_failed(s)
    \/ \E failed \in BOOLEAN : ListForwards(failed, {})
    \/ \E o \in DOMAIN objs : Status(o)

ReadSpec == Init /\ [][ReadNext]_vars

\* the manager while the operator uses the batch calls
BatchNext ==
    \/ \E i \in BatchInputs, f \in BOOLEAN : add_multiple_forwards(i, f)
    \/ \E i \in BatchInputs, f \in BOOLEAN : remove_multiple_forwards(i, f)

BatchSpec == Init /\ [][BatchNext]_vars

\* what the start() tasks, the stop() coroutines and restart_all_forwards
\* do once they can run
RestartStep ==
    \/ \E o \in DOMAIN objs : start_bind(o, FALSE)
    \/ \E o \in DOMAIN objs : start_serve(o)
    \/ \E o \in DOMAIN objs : start_cancelled(o)
    \/ \E o \in DOMAIN objs : stop(o)
    \/ \E o \in DOMAIN objs : stop_wait_closed(o)
    \/ restart_stopped
    \/ restart_start

\* the fleet while the operator starts, restarts and lists it; the
\* operator starts or restarts it only when no call and no start() task
\* is in flight
RestartNext ==
    \/ /\ start_all_forwards
       /\ ~gather.active
       /\ \A o \in DOMAIN objs : tasks[o] = NoTasks
    \/ /\ restart_all_forwards
       /\ \A o \in DOMAIN objs : tasks[o] = NoTasks
    \/ \E failed \in BOOLEAN : ListForwards(failed, {})
    \/ RestartStep

\* the event loop runs every task that is ready, and the sleep ends
RestartSpec == Init /\ [][RestartNext]_vars /\ WF_vars(RestartStep)

\* the fleet and its clients while the operator starts it and stops single
\* servers; start_all_forwards is called only when no call and no start()
\* task is in flight
StopNext ==
    \/ /\ start_all_forwards
       /\ ~gather.active
       /\ \A o \in DOMAIN objs : tasks[o] = NoTasks
    \/ \E o \in DOMAIN objs : start_bind(o, FALSE)
    \/ \E o \in DOMAIN objs : start_serve(o)
    \/ \E o \in DOMAIN objs : start_cancelled(o)
    \/ \E o \in DOMAIN objs : handle_client(o)
    \/ \E s \in DOMAIN sessions : connect_ok(s)
    \/ \E o \in DOMAIN objs : call_stop(o)
    \/ \E o \in DOMAIN objs : stop_wait_closed(o)
    \/ stop_return

StopSpec == Init /\ [][StopNext]_vars

\* a fleet that is created and started once, and the clients that connect
\* while their peers stay idle
AcceptStep ==
    \/ \E o \in DOMAIN objs, f \in BOOLEAN : start_bind(o, f)
    \/ \E o \in DOMAIN objs : start_serve(o)
    \/ \E s \in DOMAIN sessions : connect_ok(s)
    \/ \E s \in DOMAIN sessions : connect_failed(s)
    \/ \E s \in DOMAIN sessions : handler_done(s)

AcceptNext ==
    \/ \E p \in Ports : create_forward(p, FALSE)
    \/ start_all_forwards /\ \A o \in DOMAIN objs : LiveTasks(o) = 0
    \/ \E o \in DOMAIN objs : handle_client(o)
    \/ AcceptStep

\* the event loop runs every task that is ready, and a connect attempt ends
\* within its 10 second timeout
AcceptSpec == Init /\ [][AcceptNext]_vars /\ WF_vars(AcceptStep)

\* one forward is created beside those of the configuration file, the
\* fleet is started once, and clients connect
ConnectNext ==
    \/ \E p \in Ports : create_forward(p, FALSE) /\ servers = Empty
    \/ /\ start_all_forwards
       /\ \A o \in DOMAIN objs :
             LiveTasks(o) = 0 /\ objs[o].stats.errors = 0
    \/ \E o \in DOMAIN objs : handle_client(o)
    \/ AcceptStep

\* the event loop runs every task that is ready, and a connect attempt ends
\* within its 10 second timeout
ConnectSpec == Init /\ [][ConnectNext]_vars /\ WF_vars(AcceptStep)

\* what the tasks of the sessions do on their own
SessionStep ==
    \/ \E s \in DOMAIN sessions : connect_ok(s)
    \/ \E s \in DOMAIN sessions : connect_failed(s)
    \/ \E s \in DOMAIN sessions, d \in Dirs : pipe_source_closed(s, d)
    \/ \E s \in DOMAIN sessions, d \in Dirs : pipe_read_error(s, d)
    \/ \E s \in DOMAIN sessions, d \in Dirs : pipe_drain_error(s, d)
    \/ \E s \in DOMAIN sessions, d \in Dirs : pipe_done(s, d)
    \/ \E s \in DOMAIN sessions : handler_finally(s)
    \/ \E s \in DOMAIN sessions : handler_done(s)

\* what the peers of a session do: send data, take data, close, reset
PeerStep ==
    \/ \E s \in DOMAIN sessions, d \in Dirs : pipe_data(s, d)
    \/ \E s \in DOMAIN sessions, d \in Dirs : pipe_drained(s, d)
    \/ \E s \in DOMAIN sessions, d \in Dirs : pipe_eof(s, d)
    \/ \E s \in DOMAIN sessions, side \in {"local", "remote"} : conn_reset(s, side)

\* the fleet is started once, then one client connects and is relayed
RelayNext ==
    \/ start_all_forwards /\ tasks = Empty
    \/ \E o \in DOMAIN objs : start_bind(o, FALSE)
    \/ \E o \in DOMAIN objs : start_serve(o)
    \/ \E o \in DOMAIN objs : handle_client(o) /\ sessions = <<>>
    \/ SessionStep
    \/ PeerStep

RelaySpec == Init /\ [][RelayNext]_vars

\* session s relays and is idle: both copy loops wait for data
Parked(s) ==
    /\ sessions[s].pc = "relaying"
    /\ sessions[s].pipe = [c2r |-> "read", r2c |-> "read"]
    /\ sessions[s].conn = [local |-> "open", remote |-> "open"]

\* every session is idle or was dropped because its connect failed
Quiet ==
    \A s \in DOMAIN sessions :
        \/ Parked(s)
        \/ sessions[s].pc = "done" /\ sessions[s].failed = "connect"

\* what the handler of session s, its copy loops and its peers do; the
\* server relays at most MaxChunks chunks each way
session_step(s) ==
    \/ connect_ok(s)
    \/ connect_failed(s)
    \/ \E d \in Dirs :
          /\ pipe_data(s, d)
          /\ objs[sessions[s].obj].stats.total_bytes_sent < MaxChunks
          /\ objs[sessions[s].obj].stats.total_bytes_received < MaxChunks
    \/ \E d \in Dirs : pipe_drained(s, d)
    \/ \E d \in Dirs : pipe_eof(s, d)
    \/ \E side \in {"local", "remote"} : conn_reset(s, side)
    \/ \E d \in Dirs : pipe_source_closed(s, d)
    \/ \E d \in Dirs : pipe_read_error(s, d)
    \/ \E d \in Dirs : pipe_drain_error(s, d)
    \/ \E d \in Dirs : pipe_done(s, d)
    \/ handler_finally(s)
    \/ handler_done(s)

\* the fleet is started once, then the clients of one server connect one
\* after another, each while the earlier ones are quiet; the newest session
\* is the one that moves
TeardownNext ==
    \/ start_all_forwards /\ tasks = Empty
    \/ \E o \in DOMAIN objs : start_bind(o, FALSE)
    \/ \E o \in DOMAIN objs : start_serve(o)
    \/ \E o \in DOMAIN objs :
          /\ accept(o, MaxClients)
          /\ Quiet
          /\ \A q \in DOMAIN objs : tasks[q] = NoTasks
          /\ \A s \in DOMAIN sessions : sessions[s].obj = o
    \/ sessions # <<>> /\ session_step(Len(sessions))

TeardownSpec == Init /\ [][TeardownNext]_vars

\* what the handler of session s, its copy loops and its peers do when no
\* connection is reset and no read fails; the server relays at most
\* MaxChunks chunks each way
tally_step(s) ==
    \/ connect_ok(s)
    \/ connect_failed(s)
    \/ \E d \in Dirs :
          /\ pipe_data(s, d)
          /\ objs[sessions[s].obj].stats.total_bytes_sent < MaxChunks
          /\ objs[sessions[s].obj].stats.total_bytes_received < MaxChunks
    \/ \E d \in Dirs : pipe_drained(s, d)
    \/ \E d \in Dirs : pipe_eof(s, d)
    \/ \E d \in Dirs : pipe_source_closed(s, d)
    \/ \E d \in Dirs : pipe_drain_error(s, d)
    \/ \E d \in Dirs : pipe_done(s, d)
    \/ handler_finally(s)
    \/ handler_done(s)

\* every session of server o is idle or over, and those of the other
\* servers are over
Rested(o) ==
    \A s \in DOMAIN sessions :
        \/ sessions[s].pc = "done"
        \/ Parked(s) /\ sessions[s].obj = o

\* a fleet of at most two forwards is started once, then clients connect
\* one after another, each while the earlier sessions of its server are
\* idle or over and those of the other server are over; the newest session
\* is the one that moves
TallyNext ==
    \/ start_all_forwards /\ tasks = Empty
    \/ \E o \in DOMAIN objs : start_bind(o, FALSE)
    \/ \E o \in DOMAIN objs : start_serve(o)
    \/ \E o \in DOMAIN objs :
          /\ Rested(o)
          /\ \A q \in DOMAIN objs : tasks[q] = NoTasks
          /\ accept(o, MaxClients)
    \/ sessions # <<>> /\ tally_step(Len(sessions))

\* a manager whose configuration file lists at most two forwarded ports
TwoForwardInit ==
    /\ Init
    /\ Len(forwarded_ports) <= 2

TallySpec == TwoForwardInit /\ [][TallyNext]_vars

\* what the handler of session s and its copy loops do on their own
task_step(s) ==
    \/ connect_ok(s)
    \/ connect_failed(s)
    \/ \E d \in Dirs : pipe_source_closed(s, d)
    \/ \E d \in Dirs : pipe_read_error(s, d)
    \/ \E d \in Dirs : pipe_drain_error(s, d)
    \/ \E d \in Dirs : pipe_done(s, d)
    \/ handler_finally(s)
    \/ handler_done(s)

\* the event loop runs every task that is ready; the connect attempt ends
\* within its 10 second timeout; the peers owe nothing
TeardownFairSpec ==
    TeardownSpec /\ WF_vars(sessions # <<>> /\ task_step(Len(sessions)))

\* a fleet of at most one forward relays one client while the operator
\* starts and restarts it; the operator starts or restarts only when no
\* call and no start() task is in flight
CounterNext ==
    \/ /\ start_all_forwards
       /\ ~gather.active
       /\ \A o \in DOMAIN objs : tasks[o] = NoTasks
    \/ /\ restart_all_forwards
       /\ \A o \in DOMAIN objs : tasks[o] = NoTasks
    \/ RestartStep
    \/ \E o \in DOMAIN objs : handle_client(o) /\ sessions = <<>>
    \/ SessionStep
    \/ PeerStep

\* a manager whose configuration file lists at most one forwarded port
OneForwardInit ==
    /\ Init
    /\ Len(forwarded_ports) <= 1

CounterSpec == OneForwardInit /\ [][CounterNext]_vars

\* what the event loop runs on its own: the start() tasks and the end of
\* a stop() call
AgainStep ==
    \/ \E o \in DOMAIN objs, refused \in BOOLEAN : start_bind(o, refused)
    \/ \E o \in DOMAIN objs : start_serve(o)
    \/ \E o \in DOMAIN objs : start_cancelled(o)
    \/ \E o \in DOMAIN objs : stop_wait_closed(o)
    \/ stop_return

\* the operator starts a fleet of at most one forward again and again and
\* stops its server while clients connect; start_all_forwards is called only when no call
\* is in flight and no start() task waits for its bind
AgainNext ==
    \/ /\ start_all_forwards
       /\ ~gather.active
       /\ \A o \in DOMAIN objs : tasks[o].created = 0 /\ tasks[o].bound = 0
    \/ \E o \in DOMAIN objs : call_stop(o)
    \/ \E o \in DOMAIN objs : handle_client(o)
    \/ AgainStep

\* the event loop runs every start() task that is ready
AgainSpec ==
    /\ OneForwardInit
    /\ [][AgainNext]_vars
    /\ \A o \in ObjIds :
          WF_vars(o \in DOMAIN objs
                   /\ \E refused \in BOOLEAN : start_bind(o, refused))

\* no call of the operator is in flight and no start() task is unfinished
\* or has yet to notice that its listener was closed
Settled ==
    /\ ~gather.active
    /\ \A o \in DOMAIN objs :
          tasks[o].created = 0 /\ tasks[o].bound = 0 /\ tasks[o].cancelled = 0

\* a start() task or a stop() coroutine of object o has a step to take
Busy(o) ==
    \/ tasks[o].created > 0 \/ tasks[o].bound > 0 \/ tasks[o].cancelled > 0
    \/ o \in gather.todo \/ o \in gather.wait

\* the event loop runs the tasks and coroutines in the order of their
\* objects: it is the turn of o when no object before it has a step to take
Turn(o) == \A q \in DOMAIN objs : q < o => ~Busy(q)

FleetStep ==
    \/ \E o \in DOMAIN objs : Turn(o) /\ start_bind(o, FALSE)
    \/ \E o \in DOMAIN objs : Turn(o) /\ start_serve(o)
    \/ \E o \in DOMAIN objs : Turn(o) /\ start_cancelled(o)
    \/ \E o \in DOMAIN objs : Turn(o) /\ stop(o)
    \/ \E o \in DOMAIN objs : Turn(o) /\ stop_wait_closed(o)
    \/ restart_stopped
    \/ restart_start
    \/ stop_all_return

\* ports_str naming a port and the next one, or the first port twice
PortLists ==
    {<<(<<Digits[p]>>), (<<Digits[p + 1]>>)>> : p \in Ports \ {NumPorts}}
    \cup {<<(<<Digits[1]>>), (<<Digits[1]>>)>>}

\* the operator calls the manager, one call after the other has settled,
\* and Config._save never raises
FleetNext ==
    \/ Settled /\ \E p \in Ports : create_forward(p, FALSE)
    \/ Settled /\ \E p \in Ports : remove_forward(p, FALSE)
    \/ Settled /\ \E i \in PortLists : add_multiple_forwards(i, FALSE)
    \/ Settled /\ \E i \in PortLists : remove_multiple_forwards(i, FALSE)
    \/ Settled /\ start_all_forwards
    \/ Settled /\ stop_all_forwards
    \/ Settled /\ restart_all_forwards
    \/ FleetStep

FleetSpec == Init /\ [][FleetNext]_vars

\* the fleet is started once, then clients connect
SessNext ==
    \/ start_all_forwards /\ tasks = Empty
    \/ \E o \in DOMAIN objs : start_bind(o, FALSE)
    \/ \E o \in DOMAIN objs : start_serve(o)
    \/ \E o \in DOMAIN objs : handle_client(o)
    \/ SessionStep
    \/ PeerStep

SessSpec == Init /\ [][SessNext]_vars

\* the event loop runs every task that is ready; the connect attempt ends
\* within its 10 second timeout; the peers owe nothing
SessFairSpec == SessSpec /\ WF_vars(SessionStep)

\* ------------------------------------------------------------- claims
\* the fleet map holds object o
Managed(o) == \E p \in DOMAIN servers : servers[p] = o

\* C1: in every reachable state each server object with an open listening
\* socket (a live accept loop) is in the fleet map: remove_forward stops the
\* server before it discards it, so no orphaned listener survives
C1_NoOrphanedListener ==
    \A o \in DOMAIN objs : Listening(o) => Managed(o)

\* C2: start_all_forwards never launches a second start() for a server
\* whose earlier start() is still pending, binding or serving
C2_AtMostOneStart ==
    \A o \in DOMAIN objs : tasks[o].created + tasks[o].bound + Serving(o) <= 1

\* C3: once stop_all_forwards has returned and no start_all_forwards was
\* called since, no server of the fleet map is listening
C3_StoppedStaysStopped ==
    quiesced => \A p \in DOMAIN servers : ~Listening(servers[p])

\* C4: when the probe returned the empty set, list_forwards reports no
\* desired port whose server object is running as not running
C4_EmptyProbeIsUnknown ==
    (ret.op = "list" /\ ret.probe = {})
    => \A i \in DOMAIN ret.list :
          (/\ ret.list[i].port \in DOMAIN servers
           /\ objs[servers[ret.list[i].port]].running)
          => ret.list[i].running

\* session s exists, its connect succeeded, and one of its copy loops has
\* left its loop
PipeEnded(s) ==
    IF s \in DOMAIN sessions
    THEN \E d \in Dirs : sessions[s].pipe[d] \in {"closing", "done"}
    ELSE FALSE

\* both copy loops of session s have ended
BothPipesDone(s) ==
    IF s \in DOMAIN sessions
    THEN \A d \in Dirs : sessions[s].pipe[d] = "done"
    ELSE FALSE

\* neither connection of session s is open
BothEndsClosed(s) ==
    IF s \in DOMAIN sessions
    THEN sessions[s].conn.local # "open" /\ sessions[s].conn.remote # "open"
    ELSE FALSE

\* session s is complete after a connect that succeeded
CompletedRelay(s) ==
    IF s \in DOMAIN sessions
    THEN sessions[s].pc = "done" /\ sessions[s].failed # "connect"
    ELSE FALSE

\* C5: for every session whose connect succeeded, once a copy loop has
\* ended, eventually both loops have ended and neither the local nor the
\* remote connection is open; and the session is complete only when both
\* loops have ended
C5_BothEndsClose ==
    \A s \in 1..MaxSessions :
        /\ [](CompletedRelay(s) => BothPipesDone(s))
        /\ PipeEnded(s) ~> (BothPipesDone(s) /\ BothEndsClosed(s))

\* the sessions of server object o that failed
FailedSessions(o) ==
    {s \in DOMAIN sessions : sessions[s].obj = o /\ sessions[s].failed # "no"}

\* C6: the error counter of a server counts every session of it that
\* failed, by a connect failure or by an I/O error in a copy loop
C6_FailedSessionsCounted ==
    \A o \in DOMAIN objs :
        objs[o].stats.errors >= Cardinality(FailedSessions(o))

\* the ports of the tokens of an input that int() accepts
ParsedPorts(input) ==
    {to_int(t) : t \in {u \in Range(split_tokens(input)) : ~is_invalid(u)}}

\* line i of a report is the line for token i
LineMatches(line, tok) ==
    IF is_invalid(tok) THEN line = InvalidLine ELSE line.port = to_int(tok)

\* C11: a batch call returns a report with one line per token of its input,
\* in input order, the line of an invalid token being a failure line; and
\* exactly the ports of the valid tokens are added to the desired-port list
\* (when a remote target is configured) resp. removed from it
C11_BatchPerToken ==
    [][ret'.op \in {"add_multiple", "remove_multiple"}
       => LET toks == split_tokens(ret'.input)
          IN /\ ret'.outcome = "ok"
             /\ toks # <<>> => Len(ret'.msg) = Len(toks)
             /\ \A i \in DOMAIN toks :
                   i \in DOMAIN ret'.msg /\ LineMatches(ret'.msg[i], toks[i])
             /\ (ret'.op = "add_multiple" /\ remote_forward_ip # NoIP)
                   => Range(forwarded_ports') =
                          Range(forwarded_ports) \cup ParsedPorts(ret'.input)
             /\ ret'.op = "remove_multiple"
                   => Range(forwarded_ports') =
                          Range(forwarded_ports) \ ParsedPorts(ret'.input)]_vars

\* C12: every call of the manager returns a success or failure outcome with
\* a message; no exception leaves it, also when Config._save fails
C12_NoFailureEscapes ==
    ret.op \in {"create", "remove", "add_multiple", "remove_multiple",
                "start_all", "stop_all"}
    => ret.outcome \in {"ok", "fail"}

\* this step is a start() task of object o ending at a bind/listen failure
BindFails(o) ==
    /\ o \in DOMAIN objs /\ o \in DOMAIN objs'
    /\ tasks[o].created > 0
    /\ tasks'[o].created = tasks[o].created - 1
    /\ tasks'[o].bound = tasks[o].bound

\* C13: when start() of a server fails to bind, that server is left not
\* running with its error counter one higher, the task ends there, and the
\* flag, listener, start tasks, sessions and stats of every other server
\* are as before
C13_BindFailureIsolated ==
    [][\A o \in DOMAIN objs :
          BindFails(o)
          => /\ ~objs'[o].running
             /\ objs'[o].stats.errors = objs[o].stats.errors + 1
             /\ objs'[o].server = objs[o].server
             /\ sessions' = sessions
             /\ \A q \in DOMAIN objs \ {o} :
                   /\ q \in DOMAIN objs'
                   /\ objs'[q] = objs[q]
                   /\ tasks'[q] = tasks[q]]_vars

\* C13 witness: the start of one server failed while another server is
\* running with a client connected
C13_Witness ==
    \E o, q \in DOMAIN objs :
        /\ o # q
        /\ objs[o].stats.errors = 1 /\ ~objs[o].running /\ tasks[o] = NoTasks
        /\ objs[q].running /\ objs[q].active_sessions # <<>>

\* restart_all_forwards has returned and port p was running when it was
\* called
Restarted(p) == gather.caller = "restarted" /\ p \in gather.results

\* the server of port p is running
RunningPort(p) ==
    IF p \in DOMAIN servers THEN objs[servers[p]].running ELSE FALSE

\* C14: every port that was running when restart_all_forwards was called
\* is eventually running again after it returned, and a list_forwards
\* that follows reports it running
C14_RestartRestores ==
    /\ \A p \in Ports : Restarted(p) ~> RunningPort(p)
    /\ [](\A p \in Ports :
            (ret.op = "list" /\ Restarted(p) /\ RunningPort(p))
            => \A i \in DOMAIN ret.list :
                  ret.list[i].port = p => ret.list[i].running)

\* the start() task of object o has been created and the object has seen
\* no failure so far
StartPending(o) ==
    IF o \in DOMAIN objs
    THEN tasks[o].created > 0 /\ objs[o].stats.errors = 0
    ELSE FALSE

\* object o is running without a session, or its bind failed
StartedIdle(o) ==
    IF o \in DOMAIN objs
    THEN \/ objs[o].running /\ objs[o].active_sessions = <<>>
         \/ objs[o].stats.errors > 0
    ELSE FALSE

\* the sessions of object o
SessionsOf(o) == {s \in DOMAIN sessions : sessions[s].obj = o}

\* C15: with a remote target configured, a server whose start() task was
\* launched is eventually running with no active session unless its bind
\* fails, and every connection it accepts makes exactly one connect
\* attempt, to the configured remote address and the server's own port
C15_StartThenConnectOnce ==
    /\ \A o \in 1..MaxObjs : StartPending(o) ~> StartedIdle(o)
    /\ [](\A o \in DOMAIN objs :
            /\ Cardinality(SessionsOf(o)) = objs[o].stats.connections
            /\ \A s \in SessionsOf(o) :
                  /\ sessions[s].attempts = 1
                  /\ remote_forward_ip # NoIP
                  /\ sessions[s].target = <<remote_forward_ip, objs[o].port>>)

C15_Witness ==
    \E s \in DOMAIN sessions :
        /\ sessions[s].pc = "relaying"
        /\ sessions[s].conn.remote = "open"
        /\ objs[sessions[s].obj].running
        /\ objs[sessions[s].obj].stats.connections = 1
        /\ sessions[s].target = <<remote_forward_ip, objs[sessions[s].obj].port>>

\* the connect of session s fails or times out in this step
ConnectFails(s) ==
    /\ sessions[s].pc = "connecting"
    /\ sessions'[s].pc # "connecting"
    /\ sessions'[s].conn.remote # "open"

\* session s is one whose connect failed
ConnectFailed(s) ==
    IF s \in DOMAIN sessions THEN sessions[s].failed = "connect" ELSE FALSE

\* session s has left the active list of its server
Discarded(s) ==
    IF s \in DOMAIN sessions
    THEN /\ sessions[s].pc = "done"
         /\ \A i \in DOMAIN objs[sessions[s].obj].active_sessions :
               objs[sessions[s].obj].active_sessions[i] # s
    ELSE FALSE

\* C20: a failed or timed-out connect adds exactly one to the error
\* counter of the owning server (and to no other), closes the accepted
\* connection, starts no copy loop and makes no second attempt, and the
\* session then leaves the active list
C20_ConnectFailureDiscards ==
    /\ [][\A s \in DOMAIN sessions : ConnectFails(s) =>
            /\ objs'[sessions[s].obj].stats =
                  [objs[sessions[s].obj].stats EXCEPT !.errors = @ + 1]
            /\ \A q \in DOMAIN objs \ {sessions[s].obj} :
                  objs'[q].stats = objs[q].stats
            /\ sessions'[s].failed = "connect"
            /\ sessions'[s].conn.local = "closed"]_vars
    /\ [](\A s \in DOMAIN sessions : ConnectFailed(s) =>
            /\ sessions[s].conn = [local |-> "closed", remote |-> "none"]
            /\ sessions[s].pipe = [c2r |-> "none", r2c |-> "none"]
            /\ sessions[s].attempts = 1
            /\ sessions[s].pc \in {"closing", "done"})
    /\ \A s \in 1..(MaxSessions + MaxClients) :
          ConnectFailed(s) ~> Discarded(s)

\* stop() is called in this step
StopCalled == gather.caller # "stop" /\ gather'.caller = "stop"

\* a step of a stop() call: the call, the end of wait_closed, the return
StopStep == StopCalled \/ (gather.caller = "stop" /\ gather' # gather)

\* object o is stopped or was never started: not running, no listening
\* socket and no start() task on its way to one
Stopped(o) ==
    /\ ~objs[o].running
    /\ objs[o].server # "open"
    /\ tasks[o].created = 0
    /\ tasks[o].bound = 0

\* C17: stop() changes no session and no active-session list, and on a
\* server that is stopped or was never started it changes nothing and
\* leaves the server stopped
C17_StopKeepsSessions ==
    [][StopStep =>
          /\ sessions' = sessions
          /\ \A o \in DOMAIN objs :
                /\ o \in DOMAIN objs'
                /\ objs'[o].active_sessions = objs[o].active_sessions
                /\ objs'[o].stats = objs[o].stats
                /\ (StopCalled /\ objs[o].port \in gather'.results
                      /\ Stopped(o))
                   => (objs'[o] = objs[o] /\ tasks'[o] = tasks[o])]_vars

\* C17 witness: stop() has returned for a server that relays a session
C17_Witness ==
    /\ ret.op = "stop"
    /\ \E s \in DOMAIN sessions :
          /\ sessions[s].pc = "relaying"
          /\ objs[sessions[s].obj].port = ret.port
          /\ objs[sessions[s].obj].server = "closed"
          /\ ~objs[sessions[s].obj].running
          /\ objs[sessions[s].obj].active_sessions = <<s>>

\* C18: once stop() has returned for a server, the server does not listen
\* until start_all_forwards starts servers again
C18_StoppedNotListening ==
    gather.caller = "stopped"
    => \A o \in DOMAIN objs :
          (Managed(o) /\ objs[o].port \in gather.results) => ~Listening(o)

\* C19: get_status and list_forwards change no server object (running
\* flag, active sessions, counters), no session and nothing else of the
\* manager; list_forwards overrides "running" in the entry it returns only
C19_ReadOnly ==
    [][ret'.op \in {"list", "status"}
       => UNCHANGED <<servers, objs, tasks, sessions, forwarded_ports,
                      remote_forward_ip>>]_vars

\* C19 witness: a listing reports a server as running whose flag says it
\* is not (its start() task has bound the socket and not yet resumed)
C19_Witness ==
    /\ ret.op = "list"
    /\ \E i \in DOMAIN ret.list :
          /\ ret.list[i].port \in DOMAIN servers
          /\ ret.list[i].running
          /\ ~objs[servers[ret.list[i].port]].running

\* C21: whenever a copy loop of a session is not in the middle of a write,
\* the byte counter of its direction equals what was written successfully
\* in that direction: a chunk whose write fails is not counted
C21_CountsOnlyWritten ==
    \A s \in DOMAIN sessions : \A d \in Dirs :
        sessions[s].pipe[d] # "drain"
        => Chunks(s, d) = sessions[s].written[d]

\* C22: once a session has completed, the totals of its server are at
\* least what the session delivered: total_bytes_sent covers what was
\* written to the remote, total_bytes_received what was written to the
\* client
C22_TotalsCoverDelivered ==
    \A s \in DOMAIN sessions :
        sessions[s].pc = "done"
        => /\ objs[sessions[s].obj].stats.total_bytes_sent
                >= sessions[s].written.c2r
           /\ objs[sessions[s].obj].stats.total_bytes_received
                >= sessions[s].written.r2c

\* C22 witness: a completed session that delivered data both ways
C22_Witness ==
    \E s \in DOMAIN sessions :
        /\ sessions[s].pc = "done"
        /\ sessions[s].written = [c2r |-> 1, r2c |-> 1]
        /\ objs[sessions[s].obj].stats.total_bytes_sent = 1
        /\ objs[sessions[s].obj].stats.total_bytes_received = 1

\* C23: list_forwards returns one entry per port of the desired-port list,
\* in its order, each with the fields of get_status, the stats among them;
\* the entry of a port that has no server object and that the probe
\* reports has running true, no active session and empty stats
C23_ListShape ==
    ret.op = "list"
    => /\ Len(ret.list) = Len(forwarded_ports)
       /\ \A i \in DOMAIN ret.list :
             /\ ret.list[i].port = forwarded_ports[i]
             /\ ret.list[i].has_stats
             /\ ret.list[i].running = (forwarded_ports[i] \in ret.probe)
             /\ IF forwarded_ports[i] \in DOMAIN servers
                THEN ret.list[i] =
                       [get_status(servers[forwarded_ports[i]]) EXCEPT
                           !.running = ret.list[i].running]
                ELSE /\ ret.list[i].active_sessions = 0
                     /\ ret.list[i].stats = ZeroStats

\* session s has failed, or fails in this step, and this step is one of its
\* failure and teardown
TornDown(s) == sessions'[s] # sessions[s] /\ sessions'[s].failed # "no"

\* session s is in the active list of object o
Active(s, o) == s \in Range(objs[o].active_sessions)

\* C24: the failure and teardown of one session leaves the running flag,
\* the listener and the start tasks of its server as they were, and leaves
\* every other session as it was, its byte counters and its place in the
\* active list included
C24_TeardownIsolated ==
    [][\A s \in DOMAIN sessions : TornDown(s) =>
          /\ tasks' = tasks
          /\ \A o \in DOMAIN objs :
                /\ objs'[o].running = objs[o].running
                /\ objs'[o].server = objs[o].server
                /\ \A t \in DOMAIN sessions \ {s} :
                      /\ sessions'[t] = sessions[t]
                      /\ Active(t, o)' = Active(t, o)]_vars

\* C25: no step makes a counter of a server object (connections,
\* total_bytes_sent, total_bytes_received, errors) or a byte counter of a
\* session smaller: stop, restart_all_forwards and the completion of a
\* session reset nothing
C25_CountersMonotonic ==
    [][/\ \A o \in DOMAIN objs \cap DOMAIN objs' :
             /\ objs'[o].stats.connections >= objs[o].stats.connections
             /\ objs'[o].stats.total_bytes_sent
                  >= objs[o].stats.total_bytes_sent
             /\ objs'[o].stats.total_bytes_received
                  >= objs[o].stats.total_bytes_received
             /\ objs'[o].stats.errors >= objs[o].stats.errors
       /\ \A s \in DOMAIN sessions :
             /\ s \in DOMAIN sessions'
             /\ sessions'[s].bytes_sent >= sessions[s].bytes_sent
             /\ sessions'[s].bytes_received >= sessions[s].bytes_received]_vars

\* C25 witness: a server that was restarted after it relayed a session to
\* its end still has its counters
C25_Witness ==
    /\ gather.caller = "restarted"
    /\ \E s \in DOMAIN sessions :
          /\ sessions[s].pc = "done"
          /\ sessions[s].bytes_sent = 1
          /\ objs[sessions[s].obj].running
          /\ objs[sessions[s].obj].stats.connections = 1
          /\ objs[sessions[s].obj].stats.total_bytes_sent = 1
          /\ objs[sessions[s].obj].port \in gather.results

\* server object o is not running and has no listener: stop() was called
\* on it (its listener is closed) or its start() failed (the only errors
\* AgainSpec counts are those of start())
Restartable(o) ==
    /\ ~objs[o].running
    /\ objs[o].server # "open"
    /\ objs[o].server = "closed" \/ objs[o].stats.errors > 0

\* C27: a server that was stopped or whose start() failed is started
\* again by start_all_forwards: the call creates a start() task for it and
\* leaves its stats alone; the task makes its bind attempt; and when the
\* bind succeeds the server is running with an open listener (it accepts)
\* and the stats it had
C27_StartAgain ==
    /\ [][\A p \in DOMAIN servers :
            LET o == servers[p]
            IN /\ ( /\ Restartable(o)
                    /\ p \in Range(forwarded_ports)
                    /\ ret'.op = "start_all"
                    /\ ret'.outcome = "ok" )
                  => /\ p \in DOMAIN servers'
                     /\ servers'[p] = o
                     /\ tasks'[o].created = tasks[o].created + 1
                     /\ objs'[o].stats = objs[o].stats
               /\ ( /\ o \in DOMAIN objs'
                    /\ tasks'[o].bound < tasks[o].bound )
                  => /\ objs'[o].running
                     /\ objs'[o].server = "open"
                     /\ objs'[o].stats = objs[o].stats]_vars
    /\ \A o \in ObjIds :
          (IF o \in DOMAIN objs THEN tasks[o].created > 0 ELSE FALSE)
          ~> (IF o \in DOMAIN objs THEN tasks[o].created = 0 ELSE FALSE)

\* C27 witness: a server that accepted a client, was stopped (the task of
\* its first listener has not finished yet), failed a start() and was
\* started again is running with its counters
C27_Witness ==
    \E o \in DOMAIN objs :
        /\ objs[o].running
        /\ objs[o].server = "open"
        /\ tasks[o].cancelled = 1
        /\ objs[o].stats.errors = 1
        /\ objs[o].stats.connections = 1

\* C28: the running flag of every server object is true exactly when the
\* object holds an open listener in self.server; a start() that fails on
\* an object that already listens does not clear the flag
C28_RunningIffListening ==
    \A o \in DOMAIN objs : objs[o].running <=> objs[o].server = "open"

\* C29: create_forward and remove_forward change the fleet map and the
\* list of forwarded ports together or not at all: after a create_forward
\* that succeeded the port is in both, after a remove_forward that succeeded
\* it is in neither, and a call that failed (Config._save raised, or the
\* call was refused) changed neither
C29_AtomicPersistence ==
    [][/\ ret'.op = "create" =>
            IF ret'.outcome = "ok"
            THEN /\ ret'.port \in DOMAIN servers'
                 /\ ret'.port \in Range(forwarded_ports')
            ELSE /\ servers' = servers
                 /\ forwarded_ports' = forwarded_ports
       /\ ret'.op = "remove" =>
            IF ret'.outcome = "ok"
            THEN /\ ret'.port \notin DOMAIN servers'
                 /\ ret'.port \notin Range(forwarded_ports')
            ELSE /\ servers' = servers
                 /\ forwarded_ports' = forwarded_ports]_vars

\* C30: when Config._save never raises and only the manager changes the
\* list of forwarded ports, every port of the fleet map is in the list and
\* the list holds no port twice
C30_FleetWithinDesired ==
    /\ DOMAIN servers \subseteq Range(forwarded_ports)
    /\ \A i, j \in DOMAIN forwarded_ports :
          forwarded_ports[i] = forwarded_ports[j] => i = j

\* C30 witness: a batch removal returned and left a forward in the map,
\* whose server was restarted before and runs
C30_Witness ==
    /\ ret.op = "remove_multiple"
    /\ \E i \in DOMAIN ret.msg : ret.msg[i].port \in Ports
    /\ \E p \in DOMAIN servers :
          /\ objs[servers[p]].running
          /\ objs[servers[p]].server = "open"
    /\ gather.caller = "restarted"

\* C31: for every server object, total_bytes_sent is the sum of bytes_sent
\* and total_bytes_received the sum of bytes_received over the sessions
\* the server ever accepted, those that completed included; connections
\* is the number of sessions it accepted, those whose connect failed
\* included; so the active list is never longer than connections
C31_TotalsAreSums ==
    \A o \in DOMAIN objs :
        /\ objs[o].stats.total_bytes_sent =
             SumOver([s \in DOMAIN sessions |-> sessions[s].bytes_sent],
                     SessionsOf(o))
        /\ objs[o].stats.total_bytes_received =
             SumOver([s \in DOMAIN sessions |-> sessions[s].bytes_received],
                     SessionsOf(o))
        /\ objs[o].stats.connections = Cardinality(SessionsOf(o))
        /\ Len(objs[o].active_sessions) <= objs[o].stats.connections

\* C31 witness: a server has accepted two sessions; the first relayed data
\* and completed, the connect of the second failed
C31_Witness ==
    \E s, t \in DOMAIN sessions :
        /\ s < t
        /\ sessions[s].obj = sessions[t].obj
        /\ sessions[s].pc = "done"
        /\ sessions[s].bytes_sent + sessions[s].bytes_received > 0
        /\ sessions[t].pc = "done"
        /\ sessions[t].failed = "connect"
        /\ objs[sessions[s].obj].stats.connections = 2

\* the sessions of object o whose handler has not completed
Unfinished(o) == {s \in SessionsOf(o) : sessions[s].pc # "done"}

\* C26: the active list of every server holds no session twice and no
\* session of another server, and it holds exactly the sessions the
\* server accepted whose handler has not completed: every way a handler
\* completes removes its session
C26_ActiveSetExact ==
    \A o \in DOMAIN objs :
        /\ NoDup(objs[o].active_sessions)
        /\ Range(objs[o].active_sessions) = Unfinished(o)

\* how many entries of a listing are for port p
ListedCount(p, l) == Cardinality({i \in DOMAIN l : l[i].port = p})

\* C7: with a remote target configured, create_forward(p) for p outside the
\* fleet map succeeds, and list_forwards then has exactly one entry for p
C7_CreateUnmanagedListedOnce ==
    [][\A p \in Ports :
          (remote_forward_ip # NoIP /\ p \notin DOMAIN servers
           /\ ret'.op = "create" /\ ret'.port = p)
          => (ret'.outcome = "ok" /\ ListedCount(p, list_forwards({}))' = 1)]_vars

C9_NoTargetRejected ==
    [][(/\ remote_forward_ip = NoIP
        /\ \/ ret'.op = "create"
           \/ ret'.op = "start_all" /\ forwarded_ports # <<>>)
       => (/\ ret'.outcome = "fail"
           /\ UNCHANGED <<servers, objs, tasks, forwarded_ports>>)]_vars

\* C9 witness: start_all_forwards was refused while the fleet map holds a
\* server that is not running, after the target was cleared
C9_Witness ==
    /\ ret.op = "start_all"
    /\ ret.outcome = "fail"
    /\ remote_forward_ip = NoIP
    /\ forwarded_ports # <<>>
    /\ \E p \in DOMAIN servers :
           ~objs[servers[p]].running /\ tasks[servers[p]] = NoTasks

\* C16: start_all_forwards with an empty desired-port list succeeds,
\* whether or not a remote target is configured, and leaves the fleet
\* map, the server objects and the start tasks as they were
C16_StartNothing ==
    [][(forwarded_ports = <<>> /\ ret'.op = "start_all")
       => (/\ ret'.outcome = "ok"
           /\ ret'.msg = <<Line(0, "No port forwards configured")>>
           /\ UNCHANGED <<servers, objs, tasks, forwarded_ports>>)]_vars

\* C16 witness: start_all_forwards returned with nothing desired and no
\* remote target
C16_Witness ==
    /\ ret.op = "start_all"
    /\ ret.outcome = "ok"
    /\ forwarded_ports = <<>>
    /\ remote_forward_ip = NoIP
    /\ servers = Empty
    /\ tasks = Empty

\* C10: remove_forward(p) succeeds for every p, leaves p neither in the
\* desired-port list nor in the fleet map, and a second remove_forward(p)
\* changes nothing
C10_RemoveIdempotent ==
    [][ret'.op = "remove"
       => (/\ ret'.outcome = "ok"
           /\ ret'.port \notin Range(forwarded_ports')
           /\ ret'.port \notin DOMAIN servers'
           /\ (ret.op = "remove" /\ ret.port = ret'.port)
                  => UNCHANGED <<servers, objs, tasks, forwarded_ports>>)]_vars

====
